---- MODULE Spec2Model ----
(***************************************************************************)
(* Model of src/index.js: the nightly BigCommerce catalog migration.       *)
(*                                                                         *)
(* JavaScript runs one handler at a time and a handler runs until its next *)
(* await on I/O.  Every action below is therefore one I/O completion (a    *)
(* list response, a create response, an appendFile completion, a mail      *)
(* dispatch result) or one trigger, followed by all the code that runs     *)
(* until the run issues its next I/O operation.                            *)
(*                                                                         *)
(* Timestamps of log lines are left out: a log entry is the message.       *)
(* List, create and mail requests and fs.appendFile may each succeed or    *)
(* fail.  Which calls fail is an input, like the source store: either any  *)
(* call may fail, or the failing calls of each run are listed (faults).    *)
(* A run whose runMigration() promise rejects stays at "rejected": nobody  *)
(* awaits it, and the runtime may end the process there.                   *)
(***************************************************************************)
EXTENDS Integers, Sequences, FiniteSets, TLC

\* ------------------------------------------------------------------ bounds
MaxBrands == 2
MaxCategories == 2
MaxProducts == 1
MaxRefs == 2
MaxServerCap == 2
MaxRuns == 2
FirstDestId == 11

\* ------------------------------------------------------- JavaScript values
\* undefined and null are two values distinct from every number the stores use
Undefined == -1
Null == -2

\* JavaScript truthiness of a number, undefined or null
Truthy(v) == v # 0 /\ v # Undefined /\ v # Null

\* a || b
Or(a, b) == IF Truthy(a) THEN a ELSE b

\* new Map()
EmptyMap == [x \in {} |-> 0]

\* map.get(k)
MapGet(m, k) == IF k \in DOMAIN m THEN m[k] ELSE Undefined

\* map.set(k, v)
MapSet(m, k, v) == [x \in (DOMAIN m) \cup {k} |-> IF x = k THEN v ELSE m[x]]

\* map.size
MapSize(m) == Cardinality(DOMAIN m)

\* array.map(f) for f = id => categoryMap.get(id)
RECURSIVE MapGetAll(_, _)
MapGetAll(m, ids) ==
  IF ids = <<>> THEN <<>>
  ELSE <<MapGet(m, Head(ids))>> \o MapGetAll(m, Tail(ids))

\* a filter that lets everything through
FilterKeepsAll(s) == s

\* array.filter(id => id)
RECURSIVE FilterTruthy(_)
FilterTruthy(s) ==
  IF s = <<>> THEN <<>>
  ELSE (IF Truthy(Head(s)) THEN <<Head(s)>> ELSE <<>>) \o FilterTruthy(Tail(s))

Min(a, b) == IF a < b THEN a ELSE b

\* ------------------------------------------------------------ the sort
\* a comparison that puts the larger parent identifier first
CompareParentDescending(a, b) == Or(b.parent_id, 0) - Or(a.parent_id, 0)

\* (a, b) => (a.parent_id || 0) - (b.parent_id || 0)
CompareParent(a, b) == Or(a.parent_id, 0) - Or(b.parent_id, 0)

\* insert c into the sorted sequence s behind every element that does not
\* compare greater than it (Array.prototype.sort is stable)
RECURSIVE InsertSorted(_, _)
InsertSorted(s, c) ==
  IF s = <<>> THEN <<c>>
  ELSE IF CompareParent(Head(s), c) > 0 THEN <<c>> \o s
  ELSE <<Head(s)>> \o InsertSorted(Tail(s), c)

RECURSIVE SortFrom(_, _)
SortFrom(sorted, rest) ==
  IF rest = <<>> THEN sorted
  ELSE SortFrom(InsertSorted(sorted, Head(rest)), Tail(rest))

\* categories.sort((a, b) => ...)
SortCategories(categories) == SortFrom(<<>>, categories)

\* ------------------------------------------------------------ log messages
NoMsg == [k |-> "", t |-> "", n |-> 0, run |-> 0]
Msg(k, t, n, r) == [k |-> k, t |-> t, n |-> n, run |-> r]

\* the type label createResource is called with for each endpoint
TypeOf(ep) ==
  IF ep = "brands" THEN "brand"
  ELSE IF ep = "categories" THEN "category" ELSE "product"

\* ------------------------------------------------------------------- state
VARIABLES
  source,      \* the source store: the listing of each endpoint
  serverCap,   \* the largest page the source store serves
  faults,      \* the failures of the services the program calls
  run,         \* per run of runMigration: its position and its locals
  logs,        \* the module-level logs array
  file,        \* migration.log
  nextId,      \* the destination store's next identifier
  dest,        \* the resources the destination store has created
  sent         \* the notifications handed to the mail service

vars == <<source, serverCap, faults, run, logs, file, nextId, dest, sent>>

Runs == 1..MaxRuns

\* the services the program calls: the source store's listings, the
\* destination store's creates, the mail transport and the file system
Services == {"list", "create", "mail", "file"}

\* the event with which a run calls a service
CallOf(svc) == IF svc = "list" THEN "get"
               ELSE IF svc = "create" THEN "post"
               ELSE IF svc = "mail" THEN "send"
               ELSE "log"

Limit == 250

NoData == [name |-> 0]
NoRet == [id |-> 0]

Ev(ev, ep, arg) == [ev |-> ev, ep |-> ep, arg |-> arg]

IdleRun ==
  [pc |-> "idle", cont |-> "none", pending |-> NoMsg, written |-> FALSE,
   stage |-> "none",
   page |-> 0, resources |-> <<>>, items |-> <<>>, idx |-> 0,
   data |-> NoData, ret |-> NoRet, brandMap |-> EmptyMap,
   categoryMap |-> EmptyMap, trace |-> <<>>]

\* -------------------------------------------------------- the source store
\* the response to GET endpoint?page=page&limit=limit
ServerPage(ep, page, limit) ==
  LET list == source[ep]
      size == Min(limit, serverCap)
      lo   == (page - 1) * size + 1
      hi   == Min(page * size, Len(list))
  IN  [data |-> SubSeq(list, lo, hi), next |-> page * size < Len(list)]

\* ------------------------------------------------------------ code pieces
\* await log(message): push onto logs, then wait for appendFile
Log(st, r, k, t, n, cont) ==
  [st EXCEPT !.pc = "append", !.cont = cont, !.pending = Msg(k, t, n, r),
             !.written = FALSE,
             !.trace = Append(@, Ev("log", "", Msg(k, t, n, r)))]

\* a fetch that keeps only the page it received last
ConcatOverwrites(resources, data) == data

\* resources = resources.concat(response.data.data)
Concat(resources, data) == resources \o data

\* a fetch that requests the page after this one without waiting for this one
IssueGetAhead(st, ep, page) ==
  [st EXCEPT !.pc = "get", !.stage = ep, !.page = page,
             !.trace = @ \o <<Ev("get", ep, page), Ev("get", ep, page + 1)>>]

\* await api.get(`${endpoint}?page=${page}&limit=${limit}`)
IssueGet(st, ep, page) ==
  [st EXCEPT !.pc = "get", !.stage = ep, !.page = page,
             !.trace = Append(@, Ev("get", ep, page))]

\* fetchAllResources(sourceApi, endpoint) up to its first request
BeginFetch(st, ep) == IssueGet([st EXCEPT !.resources = <<>>], ep, 1)

\* the payload built for one item of the stage's list
BrandData(brand) == [name |-> brand.name]

\* a payload that falls back to the source parent
CategoryDataSourceParent(category, categoryMap) ==
  [name |-> category.name,
   parent_id |-> Or(MapGet(categoryMap, category.parent_id),
                    Or(category.parent_id, 0))]

CategoryData(category, categoryMap) ==
  [name |-> category.name,
   parent_id |-> Or(MapGet(categoryMap, category.parent_id), 0)]

\* a payload that falls back to the source brand
ProductDataSourceBrand(product, brandMap, categoryMap) ==
  [name |-> product.name,
   type |-> "physical",
   weight |-> Or(product.weight, 0),
   price |-> product.price,
   categories |-> FilterTruthy(MapGetAll(categoryMap, product.categories)),
   brand_id |-> Or(MapGet(brandMap, product.brand_id), product.brand_id)]

ProductData(product, brandMap, categoryMap) ==
  [name |-> product.name,
   type |-> "physical",
   weight |-> Or(product.weight, 0),
   price |-> product.price,
   categories |-> FilterTruthy(MapGetAll(categoryMap, product.categories)),
   brand_id |-> Or(MapGet(brandMap, product.brand_id), Null)]

Payload(st) ==
  LET item == st.items[st.idx]
  IN  IF st.stage = "brands" THEN BrandData(item)
      ELSE IF st.stage = "categories" THEN CategoryData(item, st.categoryMap)
      ELSE ProductData(item, st.brandMap, st.categoryMap)

\* createResource(destApi, endpoint, data, type) up to its request
IssuePost(st) ==
  [st EXCEPT !.pc = "post", !.data = Payload(st),
             !.trace = Append(@, Ev("post", st.stage,
                                    [item |-> st.items[st.idx].id,
                                     data |-> Payload(st)]))]

\* the for loop of a stage at position st.idx, and behind the loop the
\* return to runMigration with its next log call
Loop(st, r) ==
  IF st.idx <= Len(st.items) THEN IssuePost(st)
  ELSE IF st.stage = "brands"
       THEN Log(st, r, "Migrated", "brands", MapSize(st.brandMap), "brands_done")
  ELSE IF st.stage = "categories"
       THEN Log(st, r, "Migrated", "categories", MapSize(st.categoryMap),
                "categories_done")
  ELSE Log(st, r, "Migration completed", "", 0, "finish")

\* fetchAllResources returns resources; behind it the stage's map and list,
\* then its loop
BeginLoop(st, r) ==
  LET list == IF st.stage = "categories" THEN SortCategories(st.resources)
              ELSE st.resources
      maps == IF st.stage = "brands" THEN [st EXCEPT !.brandMap = EmptyMap]
              ELSE IF st.stage = "categories"
                   THEN [st EXCEPT !.categoryMap = EmptyMap]
              ELSE st
  IN  Loop([maps EXCEPT !.items = list, !.idx = 1,
              !.trace = Append(@, Ev("fetched", st.stage, st.resources))], r)

\* a stage that maps an item to its own identifier
RecordSourceId(st) ==
  LET item == st.items[st.idx]
  IN  IF st.stage = "brands"
      THEN [st EXCEPT !.brandMap = MapSet(@, item.id, item.id)]
      ELSE IF st.stage = "categories"
           THEN [st EXCEPT !.categoryMap = MapSet(@, item.id, item.id)]
      ELSE st

\* if (newBrand) brandMap.set(brand.id, newBrand.id), for a returned resource
Record(st) ==
  LET item == st.items[st.idx]
  IN  IF st.stage = "brands"
      THEN [st EXCEPT !.brandMap = MapSet(@, item.id, st.ret.id)]
      ELSE IF st.stage = "categories"
           THEN [st EXCEPT !.categoryMap = MapSet(@, item.id, st.ret.id)]
      ELSE st

Returned(st, ev) == [st EXCEPT !.trace = Append(@, Ev(ev, st.stage, st.page))]

\* one handler has run: the run's new position, and the entry it pushed
Commit(r, new) ==
  /\ run' = [run EXCEPT ![r] = new]
  /\ logs' = IF new.pc = "append" THEN Append(logs, new.pending) ELSE logs

\* ----------------------------------------------------------------- actions
\* 1 when a run is in flight, 0 when every run so far has ended
InFlightRuns ==
  IF \E q \in Runs : run[q].pc \notin {"idle", "done", "rejected"}
  THEN 1 ELSE 0

\* a run that starts migration.log anew
StartRunTruncates(r) ==
  /\ run[r].pc = "idle"
  /\ run' = [run EXCEPT ![r] =
               Log([@ EXCEPT !.trace = Append(@, Ev("start", "", InFlightRuns))],
                   r, "Starting migration...", "", 0, "start")]
  /\ logs' = <<Msg("Starting migration...", "", 0, r)>>
  /\ file' = <<>>
  /\ UNCHANGED <<source, serverCap, faults, nextId, dest, sent>>

\* runMigration() up to the appendFile of its first log call; the start
\* event records whether another run was in flight
StartRun(r) ==
  /\ run[r].pc = "idle"
  /\ run' = [run EXCEPT ![r] =
               Log([@ EXCEPT !.trace = Append(@, Ev("start", "", InFlightRuns))],
                   r, "Starting migration...", "", 0, "start")]
  /\ logs' = <<Msg("Starting migration...", "", 0, r)>>
  /\ UNCHANGED <<source, serverCap, faults, file, nextId, dest, sent>>

\* the call at the bottom of the module
ProcessStart == StartRun(1)

\* the scheduled callback: runMigration() is called, not awaited, whatever
\* the runs before it are doing; runs are numbered in the order they start
CronTick ==
  \E r \in Runs \ {1} : run[r - 1].pc # "idle" /\ StartRun(r)

\* run r awaits at pc
Awaits(r, pc) == run[r].pc = pc

\* the calls run r has made to a service, the pending one included
Calls(r, svc) ==
  Cardinality({ i \in DOMAIN run[r].trace : run[r].trace[i].ev = CallOf(svc) })

\* the outcome of the pending call of run r to a service: any of the two
\* when every call may fail, and else as the failure pattern has it
Fails(r, svc) ==
  IF faults.any THEN TRUE ELSE <<r, svc, Calls(r, svc)>> \in faults.at

Succeeds(r, svc) ==
  IF faults.any THEN TRUE ELSE <<r, svc, Calls(r, svc)>> \notin faults.at

\* fs.appendFile puts the line of the pending log call at the end of
\* migration.log; its promise settles in a later step, so the other run's
\* handlers and writes come in between
AppendFile(r) ==
  /\ Awaits(r, "append")
  /\ ~run[r].written
  /\ file' = Append(file, run[r].pending)
  /\ run' = [run EXCEPT ![r].written = TRUE]
  /\ UNCHANGED <<source, serverCap, faults, logs, nextId, dest, sent>>

\* the promise of appendFile resolves: the line is in migration.log
Appended(st) ==
  [st EXCEPT !.pending = NoMsg, !.cont = "none", !.written = FALSE,
             !.trace = Append(@, Ev("appended", "", st.pending))]

AppendDone(r, cont) ==
  /\ Awaits(r, "append")
  /\ run[r].written
  /\ Succeeds(r, "file")
  /\ run[r].cont = cont
  /\ file' = file

\* the promise of appendFile rejects and log() throws; the line may be in
\* migration.log or not
NotAppended(st) ==
  [st EXCEPT !.pending = NoMsg, !.cont = "none", !.written = FALSE,
             !.trace = Append(@, Ev("append_fail", "", st.pending))]

AppendFail(r, cont, k) ==
  /\ Awaits(r, "append")
  /\ Fails(r, "file")
  /\ run[r].cont = cont
  /\ run[r].pending.k = k
  /\ file' = file

\* an error leaves runMigration: its promise rejects
Rejected(st) ==
  [st EXCEPT !.pc = "rejected", !.stage = "none",
             !.trace = Append(@, Ev("reject", "", 0))]

\* the catch block of runMigration
CatchInRun(st, r) == Log(st, r, "Migration failed", "", 0, "finish")

\* 'Starting migration...': appendFile rejects; the call is outside the try block
StartLogFails(r) ==
  /\ AppendFail(r, "start", "Starting migration...")
  /\ Commit(r, Rejected(NotAppended(run[r])))
  /\ UNCHANGED <<source, serverCap, faults, nextId, dest, sent>>

\* 'Starting migration...': appendFile resolves; migrateBrands starts fetching
StartLogged(r) ==
  /\ AppendDone(r, "start")
  /\ Commit(r, BeginFetch(Appended(run[r]), "brands"))
  /\ UNCHANGED <<source, serverCap, faults, nextId, dest, sent>>

\* a page arrives that names a next page
GetOkMore(r) ==
  /\ Awaits(r, "get")
  /\ Succeeds(r, "list")
  /\ LET st == run[r]
         response == ServerPage(st.stage, st.page, Limit)
         got == [Returned(st, "get_ok") EXCEPT
                   !.resources = Concat(@, response.data)]
     IN  /\ response.next
         /\ Commit(r, IssueGet(got, st.stage, st.page + 1))
  /\ UNCHANGED <<source, serverCap, faults, file, nextId, dest, sent>>

\* the last page arrives: the stage's loop starts
GetOkLast(r) ==
  /\ Awaits(r, "get")
  /\ Succeeds(r, "list")
  /\ LET st == run[r]
         response == ServerPage(st.stage, st.page, Limit)
         got == [Returned(st, "get_ok") EXCEPT
                   !.resources = Concat(@, response.data)]
     IN  /\ ~response.next
         /\ Commit(r, BeginLoop(got, r))
  /\ UNCHANGED <<source, serverCap, faults, file, nextId, dest, sent>>

\* a page request fails: the catch block logs
GetFail(r) ==
  /\ Awaits(r, "get")
  /\ Fails(r, "list")
  /\ Commit(r, Log(Returned(run[r], "get_fail"), r,
                   "Error fetching", run[r].stage, 0, "rethrow"))
  /\ UNCHANGED <<source, serverCap, faults, file, nextId, dest, sent>>

\* a stage that catches the error of its fetch and ends with nothing done
FetchErrorEndsStage(r) ==
  /\ AppendDone(r, "rethrow")
  /\ LET st == Appended(run[r])
     IN  Commit(r, Loop([st EXCEPT !.items = <<>>, !.idx = 1], r))
  /\ UNCHANGED <<source, serverCap, faults, nextId, dest, sent>>

\* a fetch that returns the pages it has instead of throwing
FetchErrorReturnsPartial(r) ==
  /\ AppendDone(r, "rethrow")
  /\ Commit(r, BeginLoop(Appended(run[r]), r))
  /\ UNCHANGED <<source, serverCap, faults, nextId, dest, sent>>

\* 'Error fetching': appendFile resolves; the error is thrown on, through the stage,
\* into the catch block of runMigration
FetchErrorLogged(r) ==
  /\ AppendDone(r, "rethrow")
  /\ Commit(r, Log(Appended(run[r]), r, "Migration failed", "", 0, "finish"))
  /\ UNCHANGED <<source, serverCap, faults, nextId, dest, sent>>

\* 'Error fetching': appendFile rejects; the catch block of fetchAllResources
\* throws the error of log(), into the catch block of runMigration
FetchErrorLogFails(r) ==
  /\ AppendFail(r, "rethrow", "Error fetching")
  /\ Commit(r, CatchInRun(NotAppended(run[r]), r))
  /\ UNCHANGED <<source, serverCap, faults, nextId, dest, sent>>

\* the destination store confirms a creation
PostOk(r) ==
  /\ Awaits(r, "post")
  /\ Succeeds(r, "create")
  /\ LET st == run[r]
         got == [st EXCEPT !.ret = [id |-> nextId],
                   !.trace = Append(@, Ev("post_ok", st.stage,
                                          [item |-> st.items[st.idx].id,
                                           id |-> nextId]))]
     IN  /\ dest' = Append(dest, [ep |-> st.stage, id |-> nextId,
                                  data |-> st.data, run |-> r])
         /\ nextId' = nextId + 1
         /\ Commit(r, Log(got, r, "Created", TypeOf(st.stage), st.data.name,
                          "created"))
  /\ UNCHANGED <<source, serverCap, faults, file, sent>>

\* a create request fails: the catch block logs
PostFail(r) ==
  /\ Awaits(r, "post")
  /\ Fails(r, "create")
  /\ LET st == run[r]
         got == [st EXCEPT !.trace =
                   Append(@, Ev("post_fail", st.stage,
                                [item |-> st.items[st.idx].id]))]
     IN  Commit(r, Log(got, r, "Failed to create", TypeOf(st.stage),
                       st.data.name, "failed"))
  /\ UNCHANGED <<source, serverCap, faults, file, nextId, dest, sent>>

\* 'Created': appendFile resolves; createResource returns the resource
CreatedLogged(r) ==
  /\ AppendDone(r, "created")
  /\ LET st == Record(Appended(run[r]))
     IN  Commit(r, Loop([st EXCEPT !.idx = @ + 1], r))
  /\ UNCHANGED <<source, serverCap, faults, nextId, dest, sent>>

\* 'Created': appendFile rejects; the log call is inside createResource's try
\* block, so its catch block logs 'Failed to create' for the created resource
CreatedLogFails(r) ==
  /\ AppendFail(r, "created", "Created")
  /\ LET st == NotAppended(run[r])
     IN  Commit(r, Log(st, r, "Failed to create", TypeOf(st.stage),
                       st.data.name, "failed"))
  /\ UNCHANGED <<source, serverCap, faults, nextId, dest, sent>>

\* 'Failed to create': appendFile rejects; createResource throws from its catch
\* block, through the stage, into the catch block of runMigration
FailedLogFails(r) ==
  /\ AppendFail(r, "failed", "Failed to create")
  /\ Commit(r, CatchInRun(NotAppended(run[r]), r))
  /\ UNCHANGED <<source, serverCap, faults, nextId, dest, sent>>

\* 'Failed to create': appendFile resolves; createResource returns null
FailedLogged(r) ==
  /\ AppendDone(r, "failed")
  /\ LET st == Appended(run[r])
     IN  Commit(r, Loop([st EXCEPT !.idx = @ + 1], r))
  /\ UNCHANGED <<source, serverCap, faults, nextId, dest, sent>>

\* a run that goes from the brands to the products
BrandsLoggedSkipsCategories(r) ==
  /\ AppendDone(r, "brands_done")
  /\ Commit(r, BeginFetch(Appended(run[r]), "products"))
  /\ UNCHANGED <<source, serverCap, faults, nextId, dest, sent>>

\* 'Migrated n brands': appendFile resolves; migrateCategories starts fetching
BrandsLogged(r) ==
  /\ AppendDone(r, "brands_done")
  /\ Commit(r, BeginFetch(Appended(run[r]), "categories"))
  /\ UNCHANGED <<source, serverCap, faults, nextId, dest, sent>>

\* 'Migrated n categories': appendFile resolves; migrateProducts starts fetching
CategoriesLogged(r) ==
  /\ AppendDone(r, "categories_done")
  /\ Commit(r, BeginFetch(Appended(run[r]), "products"))
  /\ UNCHANGED <<source, serverCap, faults, nextId, dest, sent>>

\* 'Migrated n brands' or 'Migrated n categories': appendFile rejects; the
\* catch block of runMigration logs 'Migration failed'
CountLogFails(r) ==
  /\ \/ AppendFail(r, "brands_done", "Migrated")
     \/ AppendFail(r, "categories_done", "Migrated")
  /\ Commit(r, CatchInRun(NotAppended(run[r]), r))
  /\ UNCHANGED <<source, serverCap, faults, nextId, dest, sent>>

\* 'Migration completed': appendFile rejects; the call is inside the try block
CompletedLogFails(r) ==
  /\ AppendFail(r, "finish", "Migration completed")
  /\ Commit(r, CatchInRun(NotAppended(run[r]), r))
  /\ UNCHANGED <<source, serverCap, faults, nextId, dest, sent>>

\* 'Migration failed': appendFile rejects; the catch block of runMigration throws
FailedRunLogFails(r) ==
  /\ AppendFail(r, "finish", "Migration failed")
  /\ Commit(r, Rejected(NotAppended(run[r])))
  /\ UNCHANGED <<source, serverCap, faults, nextId, dest, sent>>

\* the terminal entry: appendFile resolves; sendEmailLog joins logs and dispatches
FinishLogged(r) ==
  /\ AppendDone(r, "finish")
  /\ LET st == Appended(run[r])
     IN  Commit(r, [st EXCEPT !.pc = "send", !.stage = "none",
                      !.trace = Append(@, Ev("send", "", logs))])
  /\ sent' = Append(sent, [run |-> r, body |-> logs])
  /\ UNCHANGED <<source, serverCap, faults, nextId, dest>>

\* the mail service accepts the notification
SendOk(r) ==
  /\ Awaits(r, "send")
  /\ Succeeds(r, "mail")
  /\ Commit(r, Log([run[r] EXCEPT !.trace = Append(@, Ev("send_ok", "", 0))],
                   r, "Email sent successfully", "", 0, "exit"))
  /\ UNCHANGED <<source, serverCap, faults, file, nextId, dest, sent>>

\* the mail service fails: the catch block logs
SendFail(r) ==
  /\ Awaits(r, "send")
  /\ Fails(r, "mail")
  /\ Commit(r, Log([run[r] EXCEPT !.trace = Append(@, Ev("send_fail", "", 0))],
                   r, "Failed to send email", "", 0, "exit"))
  /\ UNCHANGED <<source, serverCap, faults, file, nextId, dest, sent>>

\* the mail entry: appendFile resolves; runMigration returns
EmailLogged(r) ==
  /\ AppendDone(r, "exit")
  /\ Commit(r, [Appended(run[r]) EXCEPT !.pc = "done",
                  !.trace = Append(@, Ev("exit", "", 0))])
  /\ UNCHANGED <<source, serverCap, faults, nextId, dest, sent>>

\* 'Email sent successfully': appendFile rejects; the call is inside the try
\* block of sendEmailLog, whose catch block logs 'Failed to send email'
SentLogFails(r) ==
  /\ AppendFail(r, "exit", "Email sent successfully")
  /\ Commit(r, Log(NotAppended(run[r]), r, "Failed to send email", "", 0,
                   "exit"))
  /\ UNCHANGED <<source, serverCap, faults, nextId, dest, sent>>

\* 'Failed to send email': appendFile rejects; sendEmailLog throws from its catch
\* block and runMigration with it
SendFailedLogFails(r) ==
  /\ AppendFail(r, "exit", "Failed to send email")
  /\ Commit(r, Rejected(NotAppended(run[r])))
  /\ UNCHANGED <<source, serverCap, faults, nextId, dest, sent>>

\* ------------------------------------------------------------ the catalogs
\* the sequences of distinct identifiers among 1..n
IdLists(n) ==
  UNION { { l \in [1..Cardinality(S) -> S] :
              \A i, j \in 1..Cardinality(S) : i # j => l[i] # l[j] } :
          S \in SUBSET (1..n) }

BrandOf(id) == [id |-> id, name |-> 100 + id]

BrandLists(n) == { [i \in DOMAIN l |-> BrandOf(l[i])] : l \in IdLists(n) }

CategoryOf(id, parent) == [id |-> id, name |-> 200 + id, parent_id |-> parent]

\* the parent of category id in the list cs, 0 outside the list
ParentIn(cs, id) ==
  IF \E i \in DOMAIN cs : cs[i].id = id
  THEN Or((CHOOSE c \in {cs[i] : i \in DOMAIN cs} : c.id = id).parent_id, 0)
  ELSE 0

RECURSIVE Ancestor(_, _, _)
Ancestor(cs, id, k) ==
  IF k = 0 THEN id ELSE Ancestor(cs, ParentIn(cs, id), k - 1)

\* no category of the list is its own ancestor
Acyclic(cs) == \A i \in DOMAIN cs : Ancestor(cs, cs[i].id, Len(cs) + 1) = 0

\* the category listings over identifiers 1..n; a parent is absent, the
\* root 0 or another identifier, in the listing or not (n + 1 never is)
CategoryLists(n) ==
  UNION { { cs \in { [i \in DOMAIN l |-> CategoryOf(l[i], p[i])] :
                       p \in [DOMAIN l -> {Undefined} \cup (0..(n + 1))] } :
              Acyclic(cs) } :
          l \in IdLists(n) }

ProductOf(id, weight, categories, brand) ==
  [id |-> id, name |-> 300 + id, weight |-> weight, price |-> 10 * id,
   categories |-> categories, brand_id |-> brand]

RefLists(c) == { l \in IdLists(c) : Len(l) <= MaxRefs }

\* the product listings over identifiers 1..n that refer to category
\* identifiers of 1..c and to brand identifiers of 0..b, with weights of W
ProductLists(n, c, b, W) ==
  UNION { { [i \in DOMAIN l |-> ProductOf(l[i], w[i], cats[i], br[i])] :
              w \in [DOMAIN l -> W],
              cats \in [DOMAIN l -> RefLists(c)],
              br \in [DOMAIN l -> 0..b] } :
          l \in IdLists(n) }

\* ------------------------------------------------------------ specification
InitFor(B, C, P, F) ==
  /\ source \in [brands : B, categories : C, products : P]
  /\ serverCap \in 1..MaxServerCap
  /\ faults \in F
  /\ run = [r \in Runs |-> IdleRun]
  /\ logs = <<>>
  /\ file = <<>>
  /\ nextId = FirstDestId
  /\ dest = <<>>
  /\ sent = <<>>

\* every call of a service may fail or succeed
AnyFault == [any |-> TRUE, at |-> {}]

InitWith(B, C, P) == InitFor(B, C, P, {AnyFault})

\* one brand, one root category and one product of both, without or with
\* a weight
OneBrand == <<BrandOf(1)>>
OneCategory == <<CategoryOf(1, 0)>>
OneProduct == <<ProductOf(1, Undefined, <<1>>, 1)>>
OneHeavyProduct == <<ProductOf(1, 2, <<1>>, 1)>>

\* the category listing of the specification's example: 2 and 3 below 1
ExampleTree == <<CategoryOf(1, 0), CategoryOf(2, 1), CategoryOf(3, 1)>>

\* a category listing whose first parent is not listed: 3 below 2 below 1
OrphanTree == <<CategoryOf(2, 1), CategoryOf(3, 2)>>

\* a category listing whose parents have the larger identifiers: 1 below 2
\* below 3
ChainTree == <<CategoryOf(1, 2), CategoryOf(2, 3), CategoryOf(3, 0)>>

\* a brand listing of three pages when the source store serves one a page
ThreeBrands == <<BrandOf(1), BrandOf(2), BrandOf(3)>>

\* the end-to-end scenario: two brands, one category and three products, of
\* which the second is of brand 2
TwoBrands == <<BrandOf(1), BrandOf(2)>>
ThreeProducts ==
  <<ProductOf(1, Undefined, <<1>>, 1), ProductOf(2, Undefined, <<1>>, 2),
    ProductOf(3, Undefined, <<1>>, 1)>>

InitScenario == InitWith({TwoBrands}, {OneCategory}, {ThreeProducts})

\* the calls <<run, service, n>> that fail, every other call succeeding
Pattern(at) == [any |-> FALSE, at |-> at]

\* failure patterns of two runs over one brand: between them every failure
\* the program handles happens, in one run or the other
CronFaults ==
  { Pattern({<<1, "file", 1>>, <<2, "list", 1>>, <<2, "file", 2>>}),
    Pattern({<<1, "list", 1>>, <<2, "create", 1>>}),
    Pattern({<<1, "file", 2>>, <<2, "file", 1>>}),
    Pattern({<<1, "create", 1>>, <<1, "file", 2>>, <<2, "file", 1>>}),
    Pattern({<<1, "file", 3>>, <<1, "file", 4>>, <<2, "file", 1>>}),
    Pattern({<<1, "file", 5>>, <<2, "file", 1>>}),
    Pattern({<<1, "list", 1>>, <<1, "mail", 1>>, <<1, "file", 4>>,
             <<2, "list", 1>>, <<2, "file", 4>>}) }

\* two runs that fail at the second page of the brands
PagedFaults == { Pattern({<<1, "list", 2>>, <<2, "list", 2>>}) }

\* no category and no product: an empty store without a failure, one brand
\* under each of the patterns, and two brands on a page each
InitCron ==
  /\ \/ InitFor({<<>>}, {<<>>}, {<<>>}, {Pattern({})})
     \/ InitFor({OneBrand}, {<<>>}, {<<>>}, CronFaults)
     \/ InitFor({TwoBrands}, {<<>>}, {<<>>}, PagedFaults)
  /\ serverCap = 1

\* every listing is empty or the scenario's
InitLive ==
  InitWith({<<>>, TwoBrands}, {<<>>, OneCategory}, {<<>>, ThreeProducts})

\* any brand listing with at most one category and one product, and the
\* brand listing of three on its own
Init ==
  \/ InitWith(BrandLists(MaxBrands), {<<>>, OneCategory},
              {<<>>, OneProduct, OneHeavyProduct})
  \/ InitWith({ThreeBrands}, {<<>>}, {<<>>})

\* any category listing and the examples, with no brands and no products
InitCategories ==
  InitWith({<<>>},
           CategoryLists(MaxCategories)
             \cup {ExampleTree, OrphanTree, ChainTree},
           {<<>>})

\* any product listing over the categories 1 and 2 and the brand 1, of which
\* the source store lists both, one or none
InitProducts ==
  InitWith({<<>>, OneBrand},
           {OneCategory, <<CategoryOf(1, 0), CategoryOf(2, 0)>>},
           ProductLists(MaxProducts, 2, 1, {Undefined}))

Next ==
  \/ ProcessStart
  \/ \E r \in Runs :
       \/ AppendFile(r)
       \/ StartLogged(r)
       \/ StartLogFails(r)
       \/ GetOkMore(r)
       \/ GetOkLast(r)
       \/ GetFail(r)
       \/ FetchErrorLogged(r)
       \/ FetchErrorLogFails(r)
       \/ PostOk(r)
       \/ PostFail(r)
       \/ CreatedLogged(r)
       \/ CreatedLogFails(r)
       \/ FailedLogged(r)
       \/ FailedLogFails(r)
       \/ BrandsLogged(r)
       \/ CategoriesLogged(r)
       \/ CountLogFails(r)
       \/ FinishLogged(r)
       \/ CompletedLogFails(r)
       \/ FailedRunLogFails(r)
       \/ SendOk(r)
       \/ SendFail(r)
       \/ EmailLogged(r)
       \/ SentLogFails(r)
       \/ SendFailedLogFails(r)

\* the process with its scheduler: a tick may come at any time
NextCron == Next \/ CronTick

Spec == Init /\ [][Next]_vars

SpecCategories == InitCategories /\ [][Next]_vars

SpecProducts == InitProducts /\ [][Next]_vars

SpecScenario == InitScenario /\ [][Next]_vars

SpecCron == InitCron /\ [][NextCron]_vars

\* every request and every appendFile is answered, and the event loop runs
\* the handler of every answer: a run that can take a step takes one
SpecLive == InitLive /\ [][Next]_vars /\ WF_vars(Next)

\* ----------------------------------------------------------- properties
Trace(r) == run[r].trace

Stages == {"brands", "categories", "products"}

IsLog(e, k, t) == e.ev = "log" /\ e.arg.k = k /\ e.arg.t = t

\* the positions of the events ev of endpoint ep in the trace of run r
At(r, ev, ep) ==
  { i \in DOMAIN Trace(r) : Trace(r)[i].ev = ev /\ Trace(r)[i].ep = ep }

\* the entries of kind k that run r has logged: their positions
Logged(r, k) ==
  { i \in DOMAIN Trace(r) : Trace(r)[i].ev = "log" /\ Trace(r)[i].arg.k = k }

\* the arguments of the events ev of endpoint ep of run r, in order
ArgsOf(r, ev, ep) ==
  LET sel == SelectSeq(Trace(r), LAMBDA e : e.ev = ev /\ e.ep = ep)
  IN  [i \in DOMAIN sel |-> sel[i].arg]

\* the source identifiers the create requests of endpoint ep were for, in order
Attempted(r, ep) ==
  LET a == ArgsOf(r, "post", ep) IN [i \in DOMAIN a |-> a[i].item]

Ids(list) == [i \in DOMAIN list |-> list[i].id]

NoDuplicates(s) == \A i, j \in DOMAIN s : i # j => s[i] # s[j]

IsPrefix(s, t) == Len(s) <= Len(t) /\ s = SubSeq(t, 1, Len(s))

\* the number of pages of a listing
PageCount(ep) ==
  LET n == Len(source[ep])
      size == Min(Limit, serverCap)
  IN  IF n = 0 THEN 1 ELSE (n + size - 1) \div size

\* pages 1..k of a listing, one behind the other
RECURSIVE PagesUpTo(_, _)
PagesUpTo(ep, k) ==
  IF k = 0 THEN <<>>
  ELSE PagesUpTo(ep, k - 1) \o ServerPage(ep, k, Limit).data

\* C1: a fetch whose page requests all succeed returns pages 1..P one behind
\* the other, which is the whole listing in server order: N items, none
\* twice, none missing; and it has requested each of the pages 1..P once.
C1_FetchReturnsEveryPageOnce ==
  \A r \in Runs : \A i \in DOMAIN Trace(r) :
    Trace(r)[i].ev = "fetched" =>
      LET ep == Trace(r)[i].ep
          resources == Trace(r)[i].arg
      IN  /\ resources = PagesUpTo(ep, PageCount(ep))
          /\ resources = source[ep]
          /\ Len(resources) = Len(source[ep])
          /\ NoDuplicates(resources)
          /\ ArgsOf(r, "get", ep) = [k \in 1..PageCount(ep) |-> k]

\* a fetch has returned a listing of three items served on three pages
C1_Witness ==
  \E r \in Runs : \E i \in DOMAIN Trace(r) :
    /\ Trace(r)[i].ev = "fetched"
    /\ Len(Trace(r)[i].arg) = 3
    /\ PageCount(Trace(r)[i].ep) = 3

\* C2: when the request for page k fails, the fetch hands nothing to its
\* caller and no create request for that endpoint is sent in the run, no page
\* behind k is requested, and the error reaches the catch block of
\* runMigration, whose next log entry is 'Migration failed'; the run never
\* logs 'Migration completed'.
C2_FailedPageAbortsFetch ==
  \A r \in Runs : \A i \in DOMAIN Trace(r) :
    Trace(r)[i].ev = "get_fail" =>
      LET ep == Trace(r)[i].ep
          k == Trace(r)[i].arg
      IN  /\ At(r, "fetched", ep) = {}
          /\ At(r, "post", ep) = {}
          /\ \A j \in At(r, "get", ep) : Trace(r)[j].arg <= k
          /\ ArgsOf(r, "get", ep) = [p \in 1..k |-> p]
          /\ IsLog(Trace(r)[i + 1], "Error fetching", ep)
          /\ Len(Trace(r)) >= i + 3 =>
               IsLog(Trace(r)[i + 3], "Migration failed", "")
          /\ \A j \in DOMAIN Trace(r) :
               ~IsLog(Trace(r)[j], "Migration completed", "")

\* the request for page 2 of a listing failed and the run has ended
C2_Witness ==
  \E r \in Runs : \E i \in DOMAIN Trace(r) :
    /\ Trace(r)[i].ev = "get_fail"
    /\ Trace(r)[i].arg = 2
    /\ run[r].pc = "done"

MapOf(st, ep) == IF ep = "brands" THEN st.brandMap ELSE st.categoryMap

\* every entry of a map is a confirmed creation with the confirmed identifier
EntriesConfirmed ==
  \A r \in Runs : \A ep \in {"brands", "categories"} :
    \A s \in DOMAIN MapOf(run[r], ep) :
      LET d == MapOf(run[r], ep)[s]
      IN  /\ \E i \in At(r, "post_ok", ep) :
               /\ Trace(r)[i].arg.item = s
               /\ Trace(r)[i].arg.id = d
               /\ Trace(r)[i - 1].ev = "post"
               /\ Trace(r)[i - 1].arg.item = s
          /\ \A i \in At(r, "post_fail", ep) : Trace(r)[i].arg.item # s
          /\ \E n \in DOMAIN dest :
               dest[n].ep = ep /\ dest[n].id = d /\ dest[n].run = r

\* a step keeps every entry of a map as it is
EntriesKept ==
  \A r \in Runs : \A ep \in {"brands", "categories"} :
    \A s \in DOMAIN MapOf(run[r], ep) :
      /\ s \in DOMAIN MapOf(run'[r], ep)
      /\ MapOf(run'[r], ep)[s] = MapOf(run[r], ep)[s]

\* C3: in every state each entry s -> d of the brand map and of the category
\* map stands for a create request for source item s that the destination
\* store confirmed with identifier d; an item whose creation failed or was
\* not attempted has no entry; and no step changes or removes an entry.
C3_MapEntriesAreConfirmedCreations == []EntriesConfirmed /\ [][EntriesKept]_vars

\* both maps hold an entry while a creation has failed in the run
C3_Witness ==
  \E r \in Runs :
    /\ DOMAIN run[r].brandMap # {}
    /\ DOMAIN run[r].categoryMap # {}
    /\ At(r, "post_fail", "brands") # {}

\* the source identifiers whose creation was confirmed
Succeeded(r, ep) == { Trace(r)[i].arg.item : i \in At(r, "post_ok", ep) }

\* C4: the brand stage sends one create request per fetched brand in list
\* order whatever the outcomes, and when the stage ends the keys of the brand
\* map are the brands whose creation succeeded, as many as there were
\* successes, which is the number the stage reports.
C4_BrandStageMapsTheSuccesses ==
  \A r \in Runs :
    /\ IsPrefix(Attempted(r, "brands"), Ids(source.brands))
    /\ \A i \in DOMAIN Trace(r) :
         IsLog(Trace(r)[i], "Migrated", "brands") =>
           /\ Attempted(r, "brands") = Ids(source.brands)
           /\ DOMAIN run[r].brandMap = Succeeded(r, "brands")
           /\ MapSize(run[r].brandMap) = Cardinality(At(r, "post_ok", "brands"))
           /\ Trace(r)[i].arg.n = Cardinality(At(r, "post_ok", "brands"))

\* the brand stage has ended: the destination store confirmed a brand whose
\* 'Created' line was rejected by appendFile, and the brand is not in the map
C4_Witness ==
  \E r \in Runs : \E i \in At(r, "post_ok", "brands") :
    /\ Logged(r, "Migrated") # {}
    /\ Trace(r)[i].arg.item \notin DOMAIN run[r].brandMap
    /\ MapSize(run[r].brandMap) < Cardinality(At(r, "post_ok", "brands"))

\* the parent a source category names, 0 for none
ParentOf(category) == Or(category.parent_id, 0)

SourceIds(ep) == { source[ep][i].id : i \in DOMAIN source[ep] }

\* the source item of endpoint ep with identifier id
SourceItem(ep, id) ==
  CHOOSE c \in { source[ep][i] : i \in DOMAIN source[ep] } : c.id = id

\* every source category names a parent with a smaller identifier than its own
ParentsFirst ==
  \A i \in DOMAIN source.categories :
    ParentOf(source.categories[i]) < source.categories[i].id

\* C5: when every source category's parent identifier is smaller than its
\* own, a category whose parent is in the source set is submitted after its
\* parent, and when the parent's creation was confirmed the category's
\* payload carries the identifier the destination store gave the parent.
C5_ChildFollowsParentAndRefersToIt ==
  ParentsFirst =>
    \A r \in Runs : \A i \in At(r, "post", "categories") :
      LET p == ParentOf(SourceItem("categories", Trace(r)[i].arg.item))
      IN  p \in SourceIds("categories") =>
            /\ \E j \in At(r, "post", "categories") :
                 j < i /\ Trace(r)[j].arg.item = p
            /\ \A j \in At(r, "post_ok", "categories") :
                 Trace(r)[j].arg.item = p =>
                   Trace(r)[i].arg.data.parent_id = Trace(r)[j].arg.id

\* every parent identifier is smaller than the category's own: the
\* destination store confirmed category 1, its 'Created' line could not be
\* written, and its child 2 was submitted with parent_id 0
C5_Witness ==
  \E r \in Runs : \E i, j \in At(r, "post", "categories") :
    /\ ParentsFirst
    /\ i < j
    /\ Trace(r)[i].arg.item = 1
    /\ Trace(r)[i + 1].ev = "post_ok"
    /\ Trace(r)[j].arg.item = 2
    /\ ParentOf(SourceItem("categories", 2)) = 1
    /\ Trace(r)[j].arg.data.parent_id = 0

\* what the catch block of runMigration at position i of the trace caught:
\* the error of a list request, thrown on once it was logged, or the error
\* of a log call whose appendFile rejected
Thrown(r, i) ==
  /\ i > 1
  /\ \/ Trace(r)[i - 1].ev = "append_fail"
     \/ /\ Trace(r)[i - 1].ev = "appended"
        /\ Trace(r)[i - 1].arg.k = "Error fetching"

\* C6: a category whose parent has no entry in the category map when it is
\* processed is submitted with parent_id 0; the stage submits every fetched
\* category once, in the order of the sort, and the run fails only on the
\* error of a list request or of a log call, never on a category.
C6_UnmappedParentBecomesRoot ==
  \A r \in Runs :
    /\ (run[r].pc = "post" /\ run[r].stage = "categories") =>
         LET category == run[r].items[run[r].idx]
             last == Trace(r)[Len(Trace(r))]
         IN  /\ last.ev = "post"
             /\ last.arg.item = category.id
             /\ last.arg.data = run[r].data
             /\ category.parent_id \notin DOMAIN run[r].categoryMap =>
                  run[r].data.parent_id = 0
    /\ \A i \in At(r, "post", "categories") :
         (\A j \in At(r, "post_ok", "categories") :
            j < i => Trace(r)[j].arg.item #
                       SourceItem("categories", Trace(r)[i].arg.item).parent_id)
           => Trace(r)[i].arg.data.parent_id = 0
    /\ IsPrefix(Attempted(r, "categories"),
                Ids(SortCategories(source.categories)))
    /\ \A i \in DOMAIN Trace(r) :
         /\ IsLog(Trace(r)[i], "Migrated", "categories") =>
              /\ Len(Attempted(r, "categories")) = Len(source.categories)
              /\ { Attempted(r, "categories")[j] :
                     j \in DOMAIN Attempted(r, "categories") }
                   = SourceIds("categories")
         /\ IsLog(Trace(r)[i], "Migration failed", "") => Thrown(r, i)

\* a category whose parent is not in the listing has been submitted at the
\* root and has failed, and its child in the listing has then been submitted
\* at the root and has been created
C6_Witness ==
  \E r \in Runs : \E i, j \in At(r, "post", "categories") :
    LET c == SourceItem("categories", Trace(r)[i].arg.item)
        o == SourceItem("categories", Trace(r)[j].arg.item)
    IN  /\ c.parent_id = o.id
        /\ j + 1 = i - 3
        /\ Trace(r)[j + 1].ev = "post_fail"
        /\ Trace(r)[i].arg.data.parent_id = 0
        /\ c.id \in DOMAIN run[r].categoryMap
        /\ Truthy(o.parent_id)
        /\ o.parent_id \notin SourceIds("categories")
        /\ Trace(r)[j].arg.data.parent_id = 0

\* the references of refs that have an entry in map m, each replaced by its
\* entry, in the order of refs
RECURSIVE Remapped(_, _)
Remapped(refs, m) ==
  IF refs = <<>> THEN <<>>
  ELSE (IF Head(refs) \in DOMAIN m THEN <<m[Head(refs)]>> ELSE <<>>)
       \o Remapped(Tail(refs), m)

\* C7: the categories of a product's payload are the source references that
\* have an entry in the category map, each replaced by its entry, in the
\* source order, the others left out; and the stage submits every fetched
\* product once, in list order, whatever was left out.
C7_ProductCategoriesAreRemapped ==
  \A r \in Runs :
    /\ (run[r].pc = "post" /\ run[r].stage = "products") =>
         LET product == run[r].items[run[r].idx]
             last == Trace(r)[Len(Trace(r))]
         IN  /\ last.ev = "post"
             /\ last.arg.item = product.id
             /\ last.arg.data = run[r].data
             /\ run[r].data.categories =
                  Remapped(product.categories, run[r].categoryMap)
    /\ \A i \in At(r, "post", "products") :
         Trace(r)[i].arg.data.categories =
           Remapped(SourceItem("products", Trace(r)[i].arg.item).categories,
                    run[r].categoryMap)
    /\ IsPrefix(Attempted(r, "products"), Ids(source.products))
    /\ \A i \in DOMAIN Trace(r) :
         IsLog(Trace(r)[i], "Migration completed", "") =>
           Attempted(r, "products") = Ids(source.products)

\* a product with categories 1 and 2, of which only 1 has an entry, has been
\* created with the entry of 1 alone
C7_Witness ==
  \E r \in Runs : \E i \in At(r, "post", "products") :
    /\ SourceItem("products", Trace(r)[i].arg.item).categories = <<1, 2>>
    /\ DOMAIN run[r].categoryMap = {1}
    /\ Trace(r)[i].arg.data.categories = <<run[r].categoryMap[1]>>
    /\ i + 1 \in DOMAIN Trace(r)
    /\ Trace(r)[i + 1].ev = "post_ok"

\* C8: a product whose brand has no entry in the brand map is submitted with
\* brand_id null, a product whose brand has an entry with that entry; once
\* the outcome of the last product is written the run logs 'Migration
\* completed', and no product makes it fail: after a product request the run
\* fails only on a log call whose appendFile rejected.
C8_ProductBrandIsMappedOrNull ==
  \A r \in Runs :
    /\ (run[r].pc = "post" /\ run[r].stage = "products") =>
         LET product == run[r].items[run[r].idx]
         IN  run[r].data.brand_id =
               IF product.brand_id \in DOMAIN run[r].brandMap
               THEN run[r].brandMap[product.brand_id] ELSE Null
    /\ \A i \in At(r, "post", "products") :
         LET b == SourceItem("products", Trace(r)[i].arg.item).brand_id
         IN  Trace(r)[i].arg.data.brand_id =
               IF b \in DOMAIN run[r].brandMap THEN run[r].brandMap[b] ELSE Null
    /\ \A j \in DOMAIN Trace(r) :
         /\ (Trace(r)[j].ev = "appended"
               /\ Trace(r)[j].arg.k \in {"Created", "Failed to create"}
               /\ Trace(r)[j].arg.t = "product"
               /\ Trace(r)[j].arg.n = source.products[Len(source.products)].name
               /\ j + 1 \in DOMAIN Trace(r))
              => IsLog(Trace(r)[j + 1], "Migration completed", "")
         /\ (IsLog(Trace(r)[j], "Migration failed", "")
               /\ At(r, "post", "products") # {})
              => Trace(r)[j - 1].ev = "append_fail"

\* a product of a brand whose creation failed has been created with brand_id
\* null, and the run has logged 'Migration completed'
C8_Witness ==
  \E r \in Runs : \E i \in At(r, "post", "products") :
    LET b == SourceItem("products", Trace(r)[i].arg.item).brand_id
    IN  /\ \E f \in At(r, "post_fail", "brands") : Trace(r)[f].arg.item = b
        /\ Trace(r)[i].arg.data.brand_id = Null
        /\ i + 1 \in DOMAIN Trace(r)
        /\ Trace(r)[i + 1].ev = "post_ok"
        /\ \E j \in DOMAIN Trace(r) :
             IsLog(Trace(r)[j], "Migration completed", "")

Rank(ep) == IF ep = "brands" THEN 1 ELSE IF ep = "categories" THEN 2 ELSE 3

\* the entry 'Migrated n <what>' is in migration.log at position j of the trace
StageLogged(r, j, what) ==
  /\ Trace(r)[j].ev = "appended"
  /\ Trace(r)[j].arg.k = "Migrated"
  /\ Trace(r)[j].arg.t = what

\* C9: the requests of a run follow the stages: every brand request comes
\* before every category request, and both before every product request; a
\* stage sends its first request only after the stage before it has had the
\* outcome of its last create request, has logged it and has logged its
\* count; a stage sends its first create request after its fetch has
\* returned, and after a create request the run sends nothing else until the
\* outcome has arrived and is logged.
C9_StagesRunOneAfterAnother ==
  \A r \in Runs :
    LET t == Trace(r)
        of(ep) == { i \in DOMAIN t : t[i].ep = ep }
    IN  /\ \A ep \in {"categories", "products"} :
             LET before == IF ep = "categories" THEN "brands" ELSE "categories"
                 mine == of(ep)
                 theirs == IF ep = "categories" THEN of("brands")
                           ELSE of("brands") \cup of("categories")
                 logged == { j \in DOMAIN t : StageLogged(r, j, before) }
             IN  mine # {} =>
                   \E j \in logged :
                     /\ \A i \in mine : j < i
                     /\ \A k \in theirs : k < j
        /\ \A ep \in Stages :
             LET posts == { i \in of(ep) : t[i].ev = "post" }
                 gets == { i \in of(ep) : t[i].ev = "get" }
                 fetched == { i \in of(ep) : t[i].ev = "fetched" }
             IN  /\ posts # {} =>
                       \E f \in fetched :
                         /\ \A i \in posts : f < i
                         /\ \A g \in gets : g < f
                 /\ \A i \in posts :
                      /\ i + 1 \in DOMAIN t =>
                           t[i + 1].ev \in {"post_ok", "post_fail"}
                             /\ t[i + 1].ep = ep
                      /\ i + 2 \in DOMAIN t =>
                           t[i + 2].ev = "log"
                             /\ t[i + 2].arg.k \in {"Created", "Failed to create"}
                      /\ i + 3 \in DOMAIN t =>
                           t[i + 3].ev \in {"appended", "append_fail"}
                             /\ t[i + 3].arg = t[i + 2].arg
                      /\ \A j \in (i + 1)..Min(i + 3, Len(t)) :
                           t[j].ev \notin {"get", "post", "send"}

\* a run has sent create requests in all three stages, two of them for
\* brands, of which the first failed
C9_Witness ==
  \E r \in Runs :
    /\ Cardinality(At(r, "post", "brands")) >= 2
    /\ \E f \in At(r, "post_fail", "brands") :
         \E i \in At(r, "post", "brands") : f < i
    /\ At(r, "post", "categories") # {}
    /\ At(r, "post", "products") # {}

\* C10: after a failed list request a run sends no list or create request
\* and enters no later stage; its next entry after 'Error fetching' is
\* 'Migration failed', it never logs 'Migration completed', and when it
\* dispatches its notification 'Migration failed' is in migration.log; what
\* the run created before the failure is still at the destination store.
C10_ListingFailureFailsTheRun ==
  \A r \in Runs : \A i \in DOMAIN Trace(r) :
    Trace(r)[i].ev = "get_fail" =>
      /\ \A j \in DOMAIN Trace(r) :
           j > i => /\ Trace(r)[j].ev \notin {"get", "post", "fetched"}
                    /\ Trace(r)[j].ep \notin Stages
      /\ \A j \in DOMAIN Trace(r) :
           Trace(r)[j].ep \in Stages =>
             Rank(Trace(r)[j].ep) <= Rank(Trace(r)[i].ep)
      /\ \A j \in DOMAIN Trace(r) :
           ~IsLog(Trace(r)[j], "Migration completed", "")
      /\ run[r].pc \in {"send", "done"} =>
           /\ Cardinality({ j \in DOMAIN Trace(r) :
                              IsLog(Trace(r)[j], "Migration failed", "") }) = 1
           /\ \E n \in DOMAIN file :
                file[n].k = "Migration failed" /\ file[n].run = r
      /\ \A j \in DOMAIN Trace(r) :
           Trace(r)[j].ev = "post_ok" =>
             \E n \in DOMAIN dest :
               /\ dest[n].id = Trace(r)[j].arg.id
               /\ dest[n].ep = Trace(r)[j].ep
               /\ dest[n].run = r

\* the product listing failed after a brand and a category were created, and
\* the run has ended
C10_Witness ==
  \E r \in Runs :
    /\ At(r, "get_fail", "products") # {}
    /\ At(r, "post_ok", "brands") # {}
    /\ At(r, "post_ok", "categories") # {}
    /\ Len(dest) >= 2
    /\ run[r].pc = "done"

\* the terminal entries of run r: the positions where it is logged
Terminal(r) ==
  { i \in DOMAIN Trace(r) :
      \/ IsLog(Trace(r)[i], "Migration completed", "")
      \/ IsLog(Trace(r)[i], "Migration failed", "") }

\* run r dispatches at most once, and only once its terminal entry is in
\* migration.log; a failed dispatch is logged, and the run returns
ReportsOnce(r) ==
  LET t == Trace(r)
      sends == At(r, "send", "")
      answers == At(r, "send_ok", "") \cup At(r, "send_fail", "")
  IN  /\ Cardinality(sends) <= 1
      /\ Cardinality(answers) <= Cardinality(sends)
      /\ run[r].pc \in {"send", "done"} => Cardinality(sends) = 1
      /\ \A s \in sends :
           /\ s >= 3
           /\ t[s - 1].ev = "appended"
           /\ t[s - 1].arg.k \in {"Migration completed", "Migration failed"}
           /\ \A i \in Terminal(r) : i < s
           /\ \A a \in answers : s < a
      /\ \A a \in At(r, "send_fail", "") :
           a + 1 \in DOMAIN t => IsLog(t[a + 1], "Failed to send email", "")
      /\ \A a \in At(r, "send_ok", "") :
           a + 1 \in DOMAIN t => IsLog(t[a + 1], "Email sent successfully", "")
      /\ run[r].pc = "done" =>
           /\ Cardinality(answers) = 1
           /\ t[Len(t)].ev = "exit"
           /\ t[Len(t) - 1].ev = "appended"
           /\ t[Len(t) - 1].arg.k
                \in {"Email sent successfully", "Failed to send email"}

\* C11: when every request and every write is answered, a run that has
\* started returns from runMigration; it dispatches one notification, after
\* its terminal entry 'Migration completed' or 'Migration failed' is
\* written, whatever failed before; a dispatch that fails is logged as
\* 'Failed to send email' and the run still returns.
C11_EveryRunReportsOnce ==
  /\ \A r \in Runs : (run[r].pc # "idle") ~> (run[r].pc = "done")
  /\ [](\A r \in Runs : ReportsOnce(r))

\* the appendFile of 'Starting migration...' rejected: runMigration has rejected
\* without a terminal entry and without a dispatch
C11_Witness ==
  \E r \in Runs :
    /\ run[r].pc = "rejected"
    /\ Terminal(r) = {}
    /\ At(r, "send", "") = {}
    /\ sent = <<>>

\* C12: every call of createResource logs one entry and returns: after a
\* confirmed creation the entry is 'Created <type>: <name>' and the resource
\* comes back (its identifier enters the stage's map); after a failed request
\* the entry is 'Failed to create <type> <name>' and null comes back (nothing
\* enters the map); no call logs both or neither, and after either the run goes
\* on with the next item or the end of the stage, never with 'Migration
\* failed'.
C12_CreateLogsOnceAndReturns ==
  \A r \in Runs :
    LET t == Trace(r)
        oks == UNION { At(r, "post_ok", ep) : ep \in Stages }
        fails == UNION { At(r, "post_fail", ep) : ep \in Stages }
    IN  /\ Cardinality(Logged(r, "Created")) = Cardinality(oks)
        /\ Cardinality(Logged(r, "Failed to create")) = Cardinality(fails)
        /\ \A i \in oks \cup fails :
             LET ep == t[i].ep
                 k == IF i \in oks THEN "Created" ELSE "Failed to create"
             IN  /\ t[i - 1].ev = "post" /\ t[i - 1].ep = ep
                 /\ t[i - 1].arg.item = t[i].arg.item
                 /\ t[i + 1] = Ev("log", "",
                                  Msg(k, TypeOf(ep), t[i - 1].arg.data.name, r))
                 /\ i + 2 \in DOMAIN t =>
                      t[i + 2].ev \in {"appended", "append_fail"}
                 /\ i + 3 \in DOMAIN t =>
                      /\ \/ t[i + 3].ev = "post" /\ t[i + 3].ep = ep
                         \/ /\ t[i + 3].ev = "log"
                            /\ t[i + 3].arg.k
                                 \in {"Migrated", "Migration completed"}
                      /\ ep # "products" =>
                           MapGet(MapOf(run[r], ep), t[i].arg.item)
                             = IF i \in oks THEN t[i].arg.id ELSE Undefined
        /\ \A i \in Logged(r, "Migration failed") :
             t[i - 1].arg.k \notin {"Created", "Failed to create"}

\* one create request was confirmed and the run has logged 'Created' and
\* 'Failed to create' for it; createResource has returned null, and the
\* stage has ended with an empty map
C12_Witness ==
  \E r \in Runs :
    /\ Cardinality(At(r, "post", "brands")) = 1
    /\ Cardinality(At(r, "post_ok", "brands")) = 1
    /\ Cardinality(Logged(r, "Created")) = 1
    /\ Cardinality(Logged(r, "Failed to create")) = 1
    /\ run[r].brandMap = EmptyMap
    /\ \E m \in Logged(r, "Migrated") :
         Trace(r)[m].arg = Msg("Migrated", "brands", 0, r)

\* the entries run r has logged before position s of its trace, in order
LoggedBefore(r, s) ==
  LET sel == SelectSeq(SubSeq(Trace(r), 1, s - 1), LAMBDA e : e.ev = "log")
  IN  [i \in DOMAIN sel |-> sel[i].arg]

MailKinds == {"Email sent successfully", "Failed to send email"}

\* the entries about the dispatch that run r has logged: their positions
MailLogged(r) ==
  { i \in DOMAIN Trace(r) :
      Trace(r)[i].ev = "log" /\ Trace(r)[i].arg.k \in MailKinds }

\* C13: the body of a dispatched notification is the sequence of the entries
\* the run has logged from 'Starting migration...' to its terminal entry, in
\* the order of the log calls, nothing more and nothing less; the entry
\* about the dispatch itself is logged after the dispatch and is not in the
\* body; when the run has ended there is one such entry and it is in
\* migration.log.
C13_BodyIsTheRunsEntries ==
  /\ Len(sent) <= 1
  /\ \A n \in DOMAIN sent :
       LET r == sent[n].run
           t == Trace(r)
           body == sent[n].body
       IN  /\ Cardinality(At(r, "send", "")) = 1
           /\ \A s \in At(r, "send", "") :
                /\ body = LoggedBefore(r, s)
                /\ t[s].arg = body
                /\ \A i \in MailLogged(r) : s < i
           /\ body[1] = Msg("Starting migration...", "", 0, r)
           /\ body[Len(body)].k \in {"Migration completed", "Migration failed"}
           /\ \A i \in DOMAIN body : body[i].k \notin MailKinds
           /\ run[r].pc \in {"done", "rejected"} =>
                /\ Cardinality(MailLogged(r)) = 1
                /\ \A i \in MailLogged(r) :
                     \E m \in DOMAIN file : file[m] = t[i].arg

\* the dispatch succeeded and 'Email sent successfully' could not be
\* written: the run has logged 'Failed to send email' as well, and has
\* returned with only that entry in migration.log
C13_Witness ==
  \E r \in Runs :
    /\ run[r].pc = "done"
    /\ At(r, "send_ok", "") # {}
    /\ At(r, "send_fail", "") = {}
    /\ Cardinality(MailLogged(r)) = 2
    /\ \A m \in DOMAIN file : file[m].k # "Email sent successfully"
    /\ file[Len(file)].k = "Failed to send email"

\* the entry createResource logs for the outcome e of a create request
OutcomeEntry(r, e) ==
  Msg(IF e.ev = "post_ok" THEN "Created" ELSE "Failed to create",
      TypeOf(e.ep), SourceItem(e.ep, e.arg.item).name, r)

\* the entries createResource has logged for run r, by its outcomes, in order
OutcomeEntries(r) ==
  LET sel == SelectSeq(Trace(r), LAMBDA e : e.ev \in {"post_ok", "post_fail"})
  IN  [i \in DOMAIN sel |-> OutcomeEntry(r, sel[i])]

\* C14: the notification body of a run whose three listings succeeded holds
\* one 'Created' entry for every confirmed creation and one 'Failed to
\* create' entry for every failed one, in the order of the requests and with
\* the item's type and name; one entry 'Migrated b brands' and one 'Migrated
\* c categories', b and c being the numbers of confirmed creations of the
\* stage; and every product listed has had exactly one create request,
\* whatever became of its brand.
C14_BodyAccountsForEveryCreate ==
  \A n \in DOMAIN sent :
    LET r == sent[n].run
        body == sent[n].body
        count(ep) == Cardinality(At(r, "post_ok", ep))
        migrated(what) ==
          SelectSeq(body, LAMBDA m : m.k = "Migrated" /\ m.t = what)
    IN  (\E i \in DOMAIN body : body[i].k = "Migration completed") =>
          /\ SelectSeq(body, LAMBDA m : m.k \in {"Created", "Failed to create"})
               = OutcomeEntries(r)
          /\ migrated("brands") = <<Msg("Migrated", "brands", count("brands"), r)>>
          /\ migrated("categories")
               = <<Msg("Migrated", "categories", count("categories"), r)>>
          /\ \A ep \in Stages :
               /\ Attempted(r, ep) = Ids(source[ep])
               /\ Cardinality(At(r, "post", ep)) = Len(source[ep])
               /\ Cardinality(At(r, "post_ok", ep))
                    + Cardinality(At(r, "post_fail", ep)) = Len(source[ep])
          /\ MapSize(run[r].brandMap) = count("brands")
          /\ MapSize(run[r].categoryMap) = count("categories")

\* the scenario with every request confirmed: the 'Created' line of brand 2
\* was rejected by appendFile, and the body holds 'Created' and 'Failed to create'
\* for brand 2 and 'Migrated 1 brands' for two brands created
C14_Witness ==
  \E n \in DOMAIN sent :
    LET r == sent[n].run
        body == sent[n].body
    IN  /\ source.brands = TwoBrands /\ source.products = ThreeProducts
        /\ \A ep \in Stages : At(r, "post_fail", ep) = {}
        /\ Cardinality(At(r, "post_ok", "brands")) = 2
        /\ \E i, j \in DOMAIN body :
             /\ body[i] = Msg("Created", "brand", 102, r)
             /\ body[j] = Msg("Failed to create", "brand", 102, r)
        /\ \E i \in DOMAIN body : body[i] = Msg("Migrated", "brands", 1, r)
        /\ \E i \in DOMAIN body : body[i].k = "Migration completed"

\* C15: whenever a notification is dispatched, its body is the sequence of
\* the entries its own run has logged before the dispatch, also when another
\* run has started in between: no entry of the run is missing and no entry of
\* another run is in it.
C15_BodiesNeverMix ==
  \A n \in DOMAIN sent :
    LET r == sent[n].run
    IN  /\ \A s \in At(r, "send", "") : sent[n].body = LoggedBefore(r, s)
        /\ \A i \in DOMAIN sent[n].body : sent[n].body[i].run = r

\* two runs without a failure, the second started while the first was in
\* flight, have both returned: the body of the first run holds an entry of
\* the second and lacks entries of its own
C15_Witness ==
  /\ faults.at = {} /\ ~faults.any
  /\ \A r \in {1, 2} : run[r].pc = "done"
  /\ Trace(2)[1].arg = 1
  /\ \E n \in DOMAIN sent :
       /\ sent[n].run = 1
       /\ \E i \in DOMAIN sent[n].body : sent[n].body[i].run = 2
       /\ \A i \in DOMAIN sent[n].body :
            sent[n].body[i] # Msg("Starting migration...", "", 0, 1)

\* the source categories that the sort puts before their listed parent: the
\* parent's identifier is smaller than the parent's own parent identifier
SortedBeforeParent ==
  { c \in SourceIds("categories") :
      LET p == ParentOf(SourceItem("categories", c))
      IN  /\ p \in SourceIds("categories")
          /\ p < ParentOf(SourceItem("categories", p)) }

\* C16: a category whose listed parent has itself a parent identifier larger
\* than the parent's own identifier is sorted before its parent: its create
\* request comes before the parent's and carries parent_id 0, and it stays
\* at the root when the parent is created later in the same run. Such
\* categories exist in acyclic listings, also with a parent identifier larger
\* than their own.
C16_SortPutsChildBeforeParent ==
  \A r \in Runs : \A i \in At(r, "post", "categories") :
    LET t == Trace(r)
        c == t[i].arg.item
        p == ParentOf(SourceItem("categories", c))
    IN  c \in SortedBeforeParent =>
          /\ t[i].arg.data.parent_id = 0
          /\ \A j \in At(r, "post", "categories") : t[j].arg.item = p => i < j
          /\ MapGet(run[r].categoryMap, c) # Undefined =>
               \E n \in DOMAIN dest :
                 /\ dest[n].id = MapGet(run[r].categoryMap, c)
                 /\ dest[n].run = r
                 /\ dest[n].data.parent_id = 0

\* in the acyclic listing 1 below 2 below 3, category 1 was created at the
\* root before its parent 2, whose identifier is larger; then 2 was created
\* too, and the stage has ended with both in the map
C16_Witness ==
  \E r \in Runs :
    LET t == Trace(r)
    IN  /\ source.categories = ChainTree
        /\ Acyclic(source.categories)
        /\ 1 \in SortedBeforeParent
        /\ ParentOf(SourceItem("categories", 1)) = 2
        /\ \E i, j \in At(r, "post_ok", "categories") :
             /\ i < j
             /\ t[i].arg.item = 1
             /\ t[j].arg.item = 2
             /\ t[i - 1].arg.data.parent_id = 0
             /\ \E n \in DOMAIN dest :
                  dest[n].id = t[i].arg.id /\ dest[n].data.parent_id = 0
        /\ MapGet(run[r].categoryMap, 2) # Undefined
        /\ \E m \in Logged(r, "Migrated") : t[m].arg.t = "categories"

\* C17: a run logs at most one terminal entry, and exactly one by the time
\* it dispatches: 'Migration completed' when the three listings were fetched,
\* 'Migration failed' when one of them failed, never both; the outcomes of
\* the create requests do not matter, also when all of them fail.
C17_OneTerminalEntryByTheListings ==
  \A r \in Runs :
    LET completed == Logged(r, "Migration completed")
        failed == Logged(r, "Migration failed")
        fetched == { ep \in Stages : At(r, "fetched", ep) # {} }
        broken == { ep \in Stages : At(r, "get_fail", ep) # {} }
    IN  /\ Cardinality(completed) + Cardinality(failed) <= 1
        /\ completed # {} => fetched = Stages /\ broken = {}
        /\ failed # {} => Cardinality(broken) = 1 /\ fetched # Stages
        /\ run[r].pc \in {"send", "done"} =>
             /\ Cardinality(completed) + Cardinality(failed) = 1
             /\ completed # {} <=> fetched = Stages
             /\ failed # {} <=> broken # {}

\* every list request succeeded and 'Migration completed' could not be
\* written: the run has logged both terminal entries, has dispatched them
\* and has returned
C17_Witness ==
  \E r \in Runs :
    /\ run[r].pc = "done"
    /\ \A ep \in Stages : At(r, "fetched", ep) # {} /\ At(r, "get_fail", ep) = {}
    /\ Logged(r, "Migration completed") # {}
    /\ Logged(r, "Migration failed") # {}
    /\ \E n \in DOMAIN sent :
         \E i, j \in DOMAIN sent[n].body :
           /\ sent[n].body[i].k = "Migration completed"
           /\ sent[n].body[j].k = "Migration failed"

\* the events that send a request, and the events that are its answer
Requests == {"get", "post", "send"}

Answers(ev) == IF ev = "get" THEN {"get_ok", "get_fail"}
               ELSE IF ev = "post" THEN {"post_ok", "post_fail"}
               ELSE {"send_ok", "send_fail"}

\* the requests of run r that have no answer yet: their positions
InFlight(r) ==
  LET t == Trace(r)
  IN  { i \in DOMAIN t :
          /\ t[i].ev \in Requests
          /\ ~\E j \in DOMAIN t : j > i /\ t[j].ev \in Answers(t[i].ev) }

\* C18: a run has at most one list, create or dispatch request without an
\* answer, and it has one exactly while it waits for that answer; the answer
\* to a request is the next event of the run, so every request is sent after
\* the one before it was answered.
C18_OneRequestInFlight ==
  \A r \in Runs :
    LET t == Trace(r)
    IN  /\ Cardinality(InFlight(r)) <= 1
        /\ InFlight(r) # {} <=> run[r].pc \in Requests
        /\ \A i \in InFlight(r) : i = Len(t)
        /\ \A i \in DOMAIN t :
             t[i].ev \in Requests /\ i < Len(t) =>
               /\ t[i + 1].ev \in Answers(t[i].ev)
               /\ t[i + 1].ep = t[i].ep
        /\ \A i \in DOMAIN t :
             t[i].ev \in UNION { Answers(ev) : ev \in Requests } =>
               i > 1 /\ t[i - 1].ev \in Requests

\* a run waits for the answer of the mail service after list requests of
\* two pages and create requests, all of them answered
C18_Witness ==
  \E r \in Runs :
    /\ run[r].pc = "send"
    /\ InFlight(r) = {Len(Trace(r))}
    /\ Cardinality(At(r, "get", "brands")) >= 2
    /\ Cardinality(At(r, "post", "brands")) >= 2
    /\ At(r, "post", "products") # {}

\* the entries of run r whose appendFile has resolved, and all it has logged
Written(r) == ArgsOf(r, "appended", "")

AllLogged(r) == ArgsOf(r, "log", "")

\* the log calls of run r whose appendFile has settled: all but a pending one
Settled(r) ==
  IF run[r].pc = "append"
  THEN SubSeq(AllLogged(r), 1, Len(AllLogged(r)) - 1)
  ELSE AllLogged(r)

\* the lines of migration.log that are the entry e, and whether there is one
LinesWith(e) == { j \in DOMAIN file : file[j] = e }

InFile(e) == LinesWith(e) # {}

\* the lines of migration.log that run r has written
LinesOf(r) == SelectSeq(file, LAMBDA m : m.run = r)

\* the lines of the runs 1..k, run after run
RECURSIVE LinesUpTo(_)
LinesUpTo(k) == IF k = 0 THEN <<>> ELSE LinesUpTo(k - 1) \o LinesOf(k)

\* the place of an entry in a sequence that holds it
PlaceIn(seq, e) == CHOOSE i \in DOMAIN seq : seq[i] = e

\* two entries that are both in the buffer, which holds them in the order of
\* their log calls, and both in migration.log, are in the same order there
LinesInCallOrder ==
  \A i, j \in DOMAIN logs :
    i < j /\ InFile(logs[i]) /\ InFile(logs[j]) =>
      \A a \in LinesWith(logs[i]) : \A b \in LinesWith(logs[j]) : a < b

\* every run has started after the runs before it had ended
OneAfterAnother ==
  \A r \in Runs : Trace(r) # <<>> => Trace(r)[1].arg = 0

\* every notification body holds the entries its own run has logged before
\* the dispatch, and no entry of another run
BodiesAreOwn ==
  \A n \in DOMAIN sent :
    LET r == sent[n].run
    IN  /\ \A i \in DOMAIN sent[n].body : sent[n].body[i].run = r
        /\ \A s \in At(r, "send", "") : sent[n].body = LoggedBefore(r, s)

\* C19 as stated: every log call whose appendFile has settled has exactly
\* one line in migration.log, and the lines are in the order of the calls;
\* when the runs come one after another, migration.log holds all entries of
\* all runs and every body holds its own run's entries only.
C19_EveryLogCallIsWritten ==
  /\ \A r \in Runs : \A i \in DOMAIN Settled(r) :
       Cardinality(LinesWith(Settled(r)[i])) = 1
  /\ LinesInCallOrder
  /\ OneAfterAnother =>
       /\ \A r \in Runs :
            run[r].pc \in {"done", "rejected"} =>
              \A i \in DOMAIN AllLogged(r) : InFile(AllLogged(r)[i])
       /\ BodiesAreOwn

\* migration.log and the buffer: the lines of a run are entries it has
\* logged, at most one for each log call and in the order of its calls; a
\* call whose appendFile has resolved has its line; when the runs come one
\* after another, migration.log holds their lines run after run and every
\* body holds its own run's entries only
LogIsKept ==
  /\ \A r \in Runs :
       LET t == Trace(r)
       IN  /\ LinesOf(r) = SelectSeq(AllLogged(r), InFile)
           /\ \A i \in DOMAIN AllLogged(r) :
                Cardinality(LinesWith(AllLogged(r)[i])) <= 1
           /\ \A i \in DOMAIN Written(r) : InFile(Written(r)[i])
           /\ \A i \in DOMAIN t :
                t[i].ev = "log" /\ i < Len(t) =>
                  /\ t[i + 1].ev \in {"appended", "append_fail"}
                  /\ t[i + 1].arg = t[i].arg
           /\ \A i \in DOMAIN t :
                t[i].ev \in {"appended", "append_fail"} =>
                  i > 1 /\ t[i - 1].ev = "log"
  /\ \A j \in DOMAIN file : file[j].run \in Runs
  /\ OneAfterAnother =>
       /\ file = LinesUpTo(MaxRuns)
       /\ BodiesAreOwn
       /\ \A r \in Runs :
            run[r].pc \notin {"idle", "done", "rejected"} =>
              /\ IsPrefix(logs, AllLogged(r))
              /\ Len(logs) >= Len(AllLogged(r)) - 1

\* a step adds at most one line at the end of migration.log and changes no
\* line of it; the step that empties the buffer leaves it as it is
LogOnlyGrows ==
  /\ IsPrefix(file, file')
  /\ Len(file') <= Len(file) + 1
  /\ (\E r \in Runs : run[r].pc = "idle" /\ run'[r].pc # "idle")
       => file' = file /\ Len(logs') = 1

\* C19: migration.log only grows, a line at a time at its end: every log
\* call whose appendFile resolves has exactly one line in it from then on, a
\* call whose appendFile rejects has one or none, and the lines of a run are
\* in the order of its calls, whereas the lines of two overlapping runs are
\* not always in the order of the calls; the start of a run empties the
\* buffer and leaves migration.log as it is; when the runs come one after
\* another, migration.log holds the lines of all runs, run after run, and
\* every notification body holds the entries of its own run only.
C19_PersistedLogOnlyGrows == []LogIsKept /\ [][LogOnlyGrows]_vars

\* two overlapping runs: an entry of the first run was logged after an
\* entry of the second and stands before it in migration.log, both writes
\* acknowledged; one appendFile has rejected without a line and another has
\* rejected with its line in migration.log
C19_Witness ==
  /\ Trace(2) # <<>> /\ Trace(2)[1].arg = 1
  /\ \E i, j \in DOMAIN logs :
       /\ i < j
       /\ logs[i].run = 2 /\ logs[j].run = 1
       /\ \E a \in DOMAIN Written(2) : Written(2)[a] = logs[i]
       /\ \E b \in DOMAIN Written(1) : Written(1)[b] = logs[j]
       /\ PlaceIn(file, logs[j]) < PlaceIn(file, logs[i])
  /\ \E r \in Runs : \E i \in At(r, "append_fail", "") :
       ~InFile(Trace(r)[i].arg)
  /\ \E r \in Runs : \E i \in At(r, "append_fail", "") :
       InFile(Trace(r)[i].arg)

====
